---- MODULE Spec2Model ----
(***************************************************************************)
(* lumelog: the process-wide logging configuration (src/src/lib.rs) and    *)
(* the dispatcher log() with its formatter and file sink                   *)
(* (src/src/__private_log.rs).                                             *)
(*                                                                         *)
(* Option<T> is modelled as a set with at most one element: None is {}     *)
(* and Some(v) is {v}.  The OnceCell CONFIG is modelled the same way.      *)
(* A String is a sequence of pieces; a piece is a literal or a rendered    *)
(* timestamp, with the background colour `colored` wraps it in.            *)
(***************************************************************************)
EXTENDS Naturals, Integers, Sequences, FiniteSets, TLC

\* ------------------------------------------------------------- bounds
\* Number of log() calls in a behaviour.
MaxLogs == 2
\* The wall clock is read in half seconds from 0 to MaxHalfSeconds.
MaxHalfSeconds == 2

\* ----------------------------------------------------------- Option<T>
None == {}
Some(v) == {v}
is_none(o) == o = {}
unwrap(o) == CHOOSE v \in o : TRUE

\* ------------------------------------------------------------- lib.rs
\* enum LogLevel, in declaration order; derive(PartialOrd) compares the
\* discriminants, which follow this order.
LogLevel == <<"ERROR", "WARN", "INFO", "DEBUG", "TRACE">>

Levels == {LogLevel[i] : i \in 1..Len(LogLevel)}

discriminant(level) == (CHOOSE i \in 1..Len(LogLevel) : LogLevel[i] = level) - 1

FileLoggerFormat == {"JSON", "TEXT"}

\* Paths a caller hands to FileLoggerBuilder::path, and the default path.
DefaultPath == "log.txt"
Paths == {DefaultPath, "app.log"}

\* FileLoggerBuilder::new()
FileLoggerBuilder_new ==
    [enabled |-> FALSE, path |-> None, log_format |-> Some("TEXT")]

\* Every value of the struct FileLoggerBuilder (its fields are pub).
FileLoggerBuilder ==
    [enabled : BOOLEAN,
     path : {None, Some("app.log")},
     log_format : {None} \cup {Some(f) : f \in FileLoggerFormat}]

\* FileLoggerBuilder::build(self) -> Ok(FileLogger)
FileLoggerBuilder_build(self) ==
    [enabled |-> self.enabled,
     path |-> IF is_none(self.path) THEN DefaultPath ELSE unwrap(self.path),
     log_format |-> IF is_none(self.log_format) THEN "TEXT"
                    ELSE unwrap(self.log_format)]

\* ConfigBuilder::new()
ConfigBuilder_new ==
    [log_level |-> Some("INFO"),
     log_in_release |-> FALSE,
     log_with_time |-> Some(TRUE),
     std |-> TRUE,
     file_logger_config |-> None]

\* Every value of the struct ConfigBuilder (its fields are pub, and the
\* setters log_level, log_with_time and file_logger_config take an Option).
ConfigBuilder ==
    [log_level : {None} \cup {Some(l) : l \in Levels},
     log_in_release : BOOLEAN,
     log_with_time : {None, Some(TRUE), Some(FALSE)},
     std : BOOLEAN,
     file_logger_config : {None} \cup {Some(f) : f \in FileLoggerBuilder}]

\* `self.log_with_time.unwrap()` panics on None, before anything is installed.
build_unwrap_panics(self) == is_none(self.log_with_time)

\* The Config value ConfigBuilder::build constructs (lines 167-181).
build_config(self) ==
    [log_level |-> IF is_none(self.log_level) THEN "INFO"
                   ELSE unwrap(self.log_level),
     log_in_release |-> self.log_in_release,
     log_with_time |-> unwrap(self.log_with_time),
     std |-> self.std,
     file_logger_config |->
        IF is_none(self.file_logger_config)
        THEN FileLoggerBuilder_build(FileLoggerBuilder_new)
        ELSE FileLoggerBuilder_build(unwrap(self.file_logger_config))]

\* A cell that stores every value it is handed.
OnceCell_set_overwrite(cell, config) ==
    [cell |-> Some(config), result |-> "Ok"]

\* OnceCell::set(config) on `cell`: Ok and the value stored if the cell is
\* empty, Err and the cell untouched otherwise.
OnceCell_set(cell, config) ==
    IF cell = None THEN [cell |-> Some(config), result |-> "Ok"]
    ELSE [cell |-> cell, result |-> "Err"]

\* ------------------------------------------------------ __private_log.rs
\* as_nanos() counts nanoseconds; style_time keeps whole seconds.
NanosPerSecond == 1000000000

\* What SystemTime::now().duration_since(UNIX_EPOCH) can return, in ns:
\* one instant in each of the first half seconds, none on a whole second.
Instants(half_seconds) ==
    {h * (NanosPerSecond \div 2) + 1 : h \in 0..half_seconds}

Lit(s) == [bg |-> "none", s |-> s, sec |-> -1]

\* `text.on_<colour>()`: the background colour wraps every piece of text.
on(colour, text) == [i \in 1..Len(text) |-> [text[i] EXCEPT !.bg = colour]]

\* to_rfc3339() of the instant, cut at the first "." (the sub-second part
\* and what follows it are dropped), "T" -> " ", "-" -> "/": the date and
\* time of the whole second `sec`.
to_print(nanos) ==
    <<[bg |-> "none", s |-> "Y/M/D h:m:s", sec |-> nanos \div NanosPerSecond]>>

\* style_level(level)
style_level(level) ==
    IF level = "INFO" THEN on("white", <<Lit(" "), Lit(level), Lit(" ")>>)
    ELSE IF level = "WARN"
    THEN on("bright_yellow", <<Lit(" "), Lit(level), Lit(" ")>>)
    ELSE IF level = "ERROR" THEN on("red", <<Lit(" "), Lit(level), Lit(" ")>>)
    ELSE IF level = "DEBUG" THEN on("cyan", <<Lit(" "), Lit(level), Lit(" ")>>)
    ELSE IF level = "TRACE"
    THEN on("bright_black", <<Lit(" "), Lit(level), Lit(" ")>>)
    ELSE <<Lit(" UNKNOWN ")>>

\* style_time() when the clock reads `now`: <<styled, plain>>.
style_time(now) ==
    <<on("bright_black", to_print(now)),
      <<Lit(" ")>> \o to_print(now) \o <<Lit(" ")>> >>

\* One arm of formatter's match.  formatter calls style_time() once for the
\* styled text and once more for the plain text; now0 and now1 are what the
\* clock reads at the first and at the second call.
format_arm(config_ref, level, message, now0, now1) ==
    IF config_ref.log_with_time
    THEN <<style_time(now0)[1] \o <<Lit(" ")>> \o style_level(level)
              \o <<Lit(" ")>> \o message,
           style_time(now1)[2] \o <<Lit(" "), Lit(level), Lit(" ")>> \o message>>
    ELSE <<style_level(level) \o <<Lit(" ")>> \o message,
           <<Lit(level), Lit(" ")>> \o message>>

FileLoggerFormat_TEXT(config_ref, level, message, now0, now1) ==
    format_arm(config_ref, level, message, now0, now1)

\* A JSON arm that encodes the plain text.
FileLoggerFormat_JSON_encoded(config_ref, level, message, now0, now1) ==
    LET f == format_arm(config_ref, level, message, now0, now1)
    IN <<f[1], <<Lit("{")>> \o f[2] \o <<Lit("}")>> >>

FileLoggerFormat_JSON(config_ref, level, message, now0, now1) ==
    format_arm(config_ref, level, message, now0, now1)

\* formatter(config_ref, level, message): <<styled, plain>>.
formatter(config_ref, level, message, now0, now1) ==
    IF config_ref.file_logger_config.log_format = "TEXT"
    THEN FileLoggerFormat_TEXT(config_ref, level, message, now0, now1)
    ELSE FileLoggerFormat_JSON(config_ref, level, message, now0, now1)

\* A file opened with truncate in place of append.
file_log_truncate(config_ref, message, io, content) ==
    IF io.open # "Ok" THEN [result |-> io.open, content |-> content]
    ELSE IF io.write # "Ok" THEN [result |-> io.write, content |-> <<>>]
    ELSE [result |-> "Ok", content |-> <<message>>]

\* file_log(config_ref, message) on a file holding `content`, when the
\* operating system answers open() with io.open and write() with io.write
\* ("Ok" or the error's description): the Result and the file afterwards.
\* The file is opened for append; the line written is message + "\n".
file_log(config_ref, message, io, content) ==
    IF io.open # "Ok" THEN [result |-> io.open, content |-> content]
    ELSE IF io.write # "Ok" THEN [result |-> io.write, content |-> content]
    ELSE [result |-> "Ok", content |-> Append(content, message)]

\* What open() and write() can answer.
IoOutcomes ==
    {[open |-> "Ok", write |-> "Ok"],
     [open |-> "Permission denied (os error 13)", write |-> "Ok"],
     [open |-> "Ok", write |-> "No space left on device (os error 28)"]}

\* The rule with `>` in place of `>=`: only TRACE is suppressed.
release_suppressed_above_debug(debug, config_ref, level) ==
    ~debug /\ ~config_ref.log_in_release
        /\ discriminant(level) > discriminant("DEBUG")

\* cfg!(debug_assertions) is fixed by the build; the rule of lines 55-57.
release_suppressed(debug, config_ref, level) ==
    ~debug /\ ~config_ref.log_in_release
        /\ discriminant(level) >= discriminant("DEBUG")

\* The rule with `>=` in place of `>`.
level_filtered_ge(config_ref, level) ==
    discriminant(level) >= discriminant(config_ref.log_level)

\* The rule of lines 59-61: level > config_ref.log_level.
level_filtered(config_ref, level) ==
    discriminant(level) > discriminant(config_ref.log_level)

NotInitialized ==
    <<Lit("[ FATAL ] LumaLog: Config has not been initialized!")>>

\* A silent return in place of the notice.
log_uninitialized_silent(content) ==
    [printed |-> <<>>, content |-> content, file_result |-> "none"]

\* Lines 49-52: CONFIG.get() is None.
log_uninitialized(content) ==
    [printed |-> <<NotInitialized>>, content |-> content,
     file_result |-> "none"]

\* The message of the secondary log (line 78).
save_error_message(err) ==
    <<Lit("Can not save log information in file: "), Lit(err)>>

\* A print that does not consult config_ref.std.
std_print_always(config_ref, log_format_styled) == <<log_format_styled>>

\* Lines 65-67: what the call prints for the message itself.
std_print(config_ref, log_format_styled) ==
    IF config_ref.std THEN <<log_format_styled>> ELSE <<>>

\* A secondary line printed only when console output is enabled.
file_error_print_if_std(config_ref, result, now2) ==
    IF result = "Ok" \/ ~config_ref.std THEN <<>>
    ELSE <<formatter(config_ref, "ERROR", save_error_message(result),
                     now2, now2)[1]>>

\* Lines 72-81: what the call prints when file_log returned `result`; the
\* secondary line is printed, never handed to file_log.  The formatter call
\* reads the clock (now2); its plain text is dropped.
file_error_print(config_ref, result, now2) ==
    IF result = "Ok" THEN <<>>
    ELSE <<formatter(config_ref, "ERROR", save_error_message(result),
                     now2, now2)[1]>>

\* Lines 69-70: whether the call hands the plain line to file_log.
file_sink_on(config_ref) == config_ref.file_logger_config.enabled

\* log(level, message) in a process whose cell is `cell`, built with
\* debug_assertions = `debug`, the clock reading now0, now1, now2 at its
\* successive reads, the file holding `content`: the lines printed, the
\* file afterwards, and what file_log returned ("none": not called).
log_run(cell, debug, level, message, now0, now1, now2, io, content) ==
    IF cell = None
    THEN log_uninitialized(content)
    ELSE LET config_ref == unwrap(cell) IN
         IF release_suppressed(debug, config_ref, level)
               \/ level_filtered(config_ref, level)
         THEN [printed |-> <<>>, content |-> content, file_result |-> "none"]
         ELSE LET f == formatter(config_ref, level, message, now0, now1)
                  w == file_log(config_ref.file_logger_config, f[2], io,
                                content)
              IN IF file_sink_on(config_ref)
                 THEN [printed |-> std_print(config_ref, f[1])
                          \o file_error_print(config_ref, w.result, now2),
                       content |-> w.content,
                       file_result |-> w.result]
                 ELSE [printed |-> std_print(config_ref, f[1]),
                       content |-> content, file_result |-> "none"]

\* The path log() writes to in a process whose cell is `cell`.
log_path(cell) ==
    IF cell = None THEN DefaultPath
    ELSE unwrap(cell).file_logger_config.path

\* ---------------------------------------------------------------- state
VARIABLES
    CONFIG,            \* static CONFIG: OnceCell<Config>
    debug_assertions,  \* cfg!(debug_assertions) of this build
    stdout,            \* the lines printed so far
    fs,                \* the content (lines) of the file at each path
    fs0,               \* the content of each file when the process started
    calls,             \* history: each log() call, whether CONFIG.get() was
                       \* Some, and what file_log returned ("none": not called)
    lastBuild          \* history: how the latest build() call ended

vars == <<CONFIG, debug_assertions, stdout, fs, fs0, calls, lastBuild>>

Messages == {<<Lit("hello")>>}

EarlierLine == <<Lit("earlier content")>>

Init ==
    /\ CONFIG = None
    /\ debug_assertions \in BOOLEAN
    /\ stdout = <<>>
    /\ fs0 \in {[p \in Paths |-> c] : c \in {<<>>, <<EarlierLine>>}}
    /\ fs = fs0
    /\ calls = <<>>
    /\ lastBuild = [result |-> "none", builder |-> None]

\* ConfigBuilder::build(self).  Building the Config value touches only the
\* caller's own data; the one shared step is CONFIG.set, which OnceCell makes
\* atomic, so calls racing from several threads are ordered by it and a race
\* is a sequence of these steps.  `.unwrap()` panics on None and on Err.
build(self) ==
    /\ IF build_unwrap_panics(self)
       THEN /\ CONFIG' = CONFIG
            /\ lastBuild' = [result |-> "panic", builder |-> None]
       ELSE LET set == OnceCell_set(CONFIG, build_config(self)) IN
            /\ CONFIG' = set.cell
            /\ lastBuild' =
                 IF set.result = "Ok"
                 THEN [result |-> "Ok", builder |-> Some(self)]
                 ELSE [result |-> "panic", builder |-> None]
    /\ UNCHANGED <<debug_assertions, stdout, fs, fs0, calls>>

\* log(level, message).
log(level, message, now0, now1, now2, io) ==
    /\ LET path == log_path(CONFIG)
           r == log_run(CONFIG, debug_assertions, level, message,
                        now0, now1, now2, io, fs[path])
       IN /\ stdout' = stdout \o r.printed
          /\ fs' = [fs EXCEPT ![path] = r.content]
          /\ calls' = Append(calls, [level |-> level, message |-> message,
                                     configured |-> CONFIG # None,
                                     file_result |-> r.file_result])
    /\ UNCHANGED <<CONFIG, debug_assertions, fs0, lastBuild>>

\* ------------------------------------------------------- specifications
\* build() is called on a builder of B.
BuildCall(B) == \E self \in B : build(self)

\* log() is called with a level of L and a message of M, while the clock
\* reads instants of T, not stepping back during the call, and the
\* operating system answers with one of IO.
LogCall(L, M, T, IO) ==
    \E level \in L, message \in M, now0, now1, now2 \in T, io \in IO :
        /\ now0 <= now1 /\ now1 <= now2
        /\ log(level, message, now0, now1, now2, io)

Ok == [open |-> "Ok", write |-> "Ok"]

\* A clock that reads the same instant throughout.
Frozen == Instants(0)

\* Builders a caller gets from ConfigBuilder::new() by setting every field.
SetBuilders ==
    {b \in ConfigBuilder :
        /\ ~is_none(b.log_level) /\ ~is_none(b.log_with_time)
        /\ ~is_none(b.file_logger_config)
        /\ ~is_none(unwrap(b.file_logger_config).log_format)
        /\ is_none(unwrap(b.file_logger_config).path)}

\* Builders with the level and the release flag of ConfigBuilder::new().
SinkBuilders ==
    {b \in ConfigBuilder :
        /\ b.log_level = Some("INFO") /\ ~b.log_in_release
        /\ ~is_none(b.log_with_time)}

\* Builders with each optional input absent or set to a value other than
\* its default, in every combination.
OptionBuilders ==
    {b \in ConfigBuilder :
        /\ b.log_level \in {None, Some("TRACE")}
        /\ \/ is_none(b.file_logger_config)
           \/ unwrap(b.file_logger_config).log_format \in {None, Some("JSON")}}

\* The dispatcher: a process that installs its configuration once and logs
\* at every level, before and after the install.
Next ==
    \/ CONFIG = None /\ BuildCall(SetBuilders)
    \/ Len(calls) < MaxLogs /\ LogCall(Levels, Messages, Frozen, IoOutcomes)

Spec == Init /\ [][Next]_vars

\* The configuration: any number of build() calls on any builders, in any
\* order with log() calls.
NextBuild ==
    \/ BuildCall(OptionBuilders)
    \/ Len(calls) < MaxLogs /\ LogCall({"ERROR"}, Messages, Frozen, {Ok})

SpecBuild == Init /\ [][NextBuild]_vars

\* The clock: one log() call, the clock reading any instant at each read.
NextClock ==
    \/ CONFIG = None /\ BuildCall(SinkBuilders)
    \/ calls = <<>> /\ LogCall({"ERROR", "INFO", "DEBUG"}, Messages,
                               Instants(MaxHalfSeconds), IoOutcomes)

SpecClock == Init /\ [][NextClock]_vars

\* =========================================================== properties
\* The fixed order of the levels.
Ordinal(level) ==
    CASE level = "ERROR" -> 0 [] level = "WARN" -> 1 [] level = "INFO" -> 2
      [] level = "DEBUG" -> 3 [] level = "TRACE" -> 4

\* The snapshot installed in CONFIG.
Installed == unwrap(CONFIG)

\* This step is a log() call; Call is the call it made.
Logged == Len(calls') = Len(calls) + 1
Call == calls'[Len(calls')]
LastCall == calls[Len(calls)]

\* What the step printed, and the file the step could write to.
Printed == SubSeq(stdout', Len(stdout) + 1, Len(stdout'))
OnlyPrinted == Len(stdout') >= Len(stdout) /\ stdout' = stdout \o Printed
SinkPath == Installed.file_logger_config.path
Written == SubSeq(fs'[SinkPath], Len(fs[SinkPath]) + 1, Len(fs'[SinkPath]))
OnlyAppended ==
    /\ Len(fs'[SinkPath]) >= Len(fs[SinkPath])
    /\ fs' = [fs EXCEPT ![SinkPath] = fs[SinkPath] \o Written]

\* The line names the level and ends with the message.
Carries(line, level, message) ==
    /\ \E i \in 1..Len(line) : line[i].s = level
    /\ Len(line) > Len(message)
    /\ SubSeq(line, Len(line) - Len(message) + 1, Len(line)) = message

\* The line is styled: its level is on a background colour.
Styled(line, level) ==
    \E i \in 1..Len(line) : line[i].s = level /\ line[i].bg # "none"

\* file_log returned an error.
Failed(call) == call.file_result \notin {"none", "Ok"}

\* Release-mode suppression does not apply to the installed snapshot.
NoSuppression == debug_assertions \/ Installed.log_in_release

\* C1: with a configuration installed and release-mode suppression not
\* applying, log(a, msg) under minimum level b reaches the enabled sinks
\* (one console line if std is on, one append attempt if the file sink is
\* on, appending the line when it succeeds) iff Ordinal(a) <= Ordinal(b),
\* and otherwise writes nothing to the console or the file.
C1_LevelFilter ==
    [][(Logged /\ CONFIG # None /\ NoSuppression) =>
        IF Ordinal(Call.level) <= Ordinal(Installed.log_level)
        THEN /\ OnlyPrinted /\ OnlyAppended
             /\ Installed.std =>
                  /\ Len(Printed) >= 1
                  /\ Carries(Printed[1], Call.level, Call.message)
             /\ Installed.file_logger_config.enabled =>
                  /\ Call.file_result # "none"
                  /\ Call.file_result = "Ok" =>
                       /\ Len(Written) = 1
                       /\ Carries(Written[1], Call.level, Call.message)
        ELSE stdout' = stdout /\ fs' = fs /\ Call.file_result = "none"]_vars

\* C1's case: under minimum DEBUG, a DEBUG call reaches both sinks and a
\* TRACE call is dropped.
C1_Witness ==
    /\ CONFIG # None /\ Len(calls) = 2
    /\ Installed.log_level = "DEBUG" /\ Installed.std
    /\ Installed.file_logger_config.enabled
    /\ calls[1].configured /\ calls[1].level = "DEBUG"
    /\ calls[1].file_result = "Ok"
    /\ calls[2].configured /\ calls[2].level = "TRACE"
    /\ Len(stdout) = 1 /\ Len(fs[SinkPath]) = Len(fs0[SinkPath]) + 1

\* C2: in a non-debug build with log_in_release not set, every DEBUG or
\* TRACE call is dropped (nothing printed, nothing written, no append
\* attempted) whatever the minimum level; the rule drops nothing else: a
\* call of level ERROR, WARN or INFO, or any call in a debug build or with
\* log_in_release set, whose level is within the minimum reaches every
\* enabled sink.
C2_ReleaseSuppression ==
    [][(Logged /\ CONFIG # None) =>
        IF ~debug_assertions /\ ~Installed.log_in_release
              /\ Call.level \in {"DEBUG", "TRACE"}
        THEN stdout' = stdout /\ fs' = fs /\ Call.file_result = "none"
        ELSE Ordinal(Call.level) <= Ordinal(Installed.log_level) =>
               /\ Installed.std => Len(stdout') > Len(stdout)
               /\ Installed.file_logger_config.enabled =>
                    Call.file_result # "none"]_vars

\* C2's case: a release build, minimum TRACE, a TRACE call dropped and an
\* INFO call printed.
C2_Witness ==
    /\ CONFIG # None /\ ~debug_assertions /\ ~Installed.log_in_release
    /\ Installed.log_level = "TRACE" /\ Installed.std
    /\ Len(calls) = 2
    /\ calls[1].configured /\ calls[1].level = "TRACE"
    /\ calls[2].configured /\ calls[2].level = "INFO"
    /\ Len(stdout) = 1 /\ Carries(stdout[1], "INFO", calls[2].message)

\* The fixed fallback notice.
FallbackNotice ==
    <<[bg |-> "none",
       s |-> "[ FATAL ] LumaLog: Config has not been initialized!",
       sec |-> -1]>>

\* C4: log() before any install prints exactly the one fallback notice,
\* writes to no file, attempts no append, and leaves CONFIG uninstalled; a
\* first build() after such calls still succeeds.
C4_BeforeInstall ==
    [][/\ (Logged /\ CONFIG = None) =>
            /\ stdout' = Append(stdout, FallbackNotice)
            /\ fs' = fs /\ Call.file_result = "none" /\ CONFIG' = None
       /\ (CONFIG = None /\ lastBuild' # lastBuild) =>
            lastBuild'.result = "Ok" /\ CONFIG' # None]_vars

\* C4's case: two calls before the install, then the install.
C4_Witness ==
    /\ Len(calls) = 2 /\ ~calls[1].configured /\ ~calls[2].configured
    /\ calls[1].level = "ERROR" /\ calls[2].level = "TRACE"
    /\ stdout = <<FallbackNotice, FallbackNotice>>
    /\ CONFIG # None /\ lastBuild.result = "Ok"

\* The call passes both filters of the installed snapshot.
Passes(level) ==
    /\ Ordinal(level) <= Ordinal(Installed.log_level)
    /\ ~(~debug_assertions /\ ~Installed.log_in_release
           /\ level \in {"DEBUG", "TRACE"})

\* The snapshot a builder stands for: every absent input at its default,
\* every set input at its value.
Defaulted(b) ==
    [log_level |-> IF b.log_level = {} THEN "INFO"
                   ELSE CHOOSE l \in b.log_level : TRUE,
     log_in_release |-> b.log_in_release,
     log_with_time |-> IF b.log_with_time = {} THEN TRUE
                       ELSE CHOOSE t \in b.log_with_time : TRUE,
     std |-> b.std,
     file_logger_config |->
        IF b.file_logger_config = {}
        THEN [enabled |-> FALSE, path |-> "log.txt", log_format |-> "TEXT"]
        ELSE LET f == CHOOSE x \in b.file_logger_config : TRUE
             IN [enabled |-> f.enabled,
                 path |-> IF f.path = {} THEN "log.txt"
                          ELSE CHOOSE x \in f.path : TRUE,
                 log_format |-> IF f.log_format = {} THEN "TEXT"
                                ELSE CHOOSE x \in f.log_format : TRUE]]

\* This step is a build() call that ended otherwise than the one before.
Built == lastBuild' # lastBuild

\* C3: the configuration is installed at most once: a build() succeeds only
\* on the empty cell, and then installs its builder's values; once a
\* snapshot is installed no step changes it, every further build() panics
\* and every log() call reads it.
C3_InstallOnce ==
    [][/\ CONFIG # None => CONFIG' = CONFIG
       /\ (CONFIG # None /\ Built) => lastBuild'.result = "panic"
       /\ (Built /\ lastBuild'.result = "Ok") =>
            /\ CONFIG = None
            /\ CONFIG' = {Defaulted(CHOOSE b \in lastBuild'.builder : TRUE)}
       /\ (CONFIG = None /\ CONFIG' # None) =>
            Built /\ lastBuild'.result = "Ok"
       /\ Logged => (Call.configured <=> CONFIG # None)]_vars

\* C3's case: a log() call before the install, the install, a log() call
\* that reads the snapshot, then a further build() that panics.
C3_Witness ==
    /\ CONFIG # None /\ lastBuild.result = "panic"
    /\ Installed.log_level = "TRACE" /\ Installed.std
    /\ Len(calls) = 2 /\ ~calls[1].configured /\ calls[2].configured
    /\ Len(stdout) = 2 /\ Carries(stdout[2], "ERROR", calls[2].message)

\* The calls whose line file_log appended.
Appended(call) == call.file_result = "Ok"
OkCalls == SelectSeq(calls, Appended)

\* C5: the file sink appends only: every call that passes filtering with the
\* file sink on attempts an append, and the file at the configured path holds
\* its prior content followed by one line per call whose append succeeded,
\* in call order; every other file is untouched.
C5_AppendOnly ==
    /\ \A i \in 1..Len(calls) :
          (calls[i].configured /\ Installed.file_logger_config.enabled
             /\ Passes(calls[i].level)) => calls[i].file_result # "none"
    /\ \A p \in Paths :
          IF CONFIG # None /\ p = SinkPath
          THEN /\ Len(fs[p]) = Len(fs0[p]) + Len(OkCalls)
               /\ SubSeq(fs[p], 1, Len(fs0[p])) = fs0[p]
               /\ \A i \in 1..Len(OkCalls) :
                     Carries(fs[p][Len(fs0[p]) + i], OkCalls[i].level,
                             OkCalls[i].message)
          ELSE fs[p] = fs0[p]

\* C5's case: two appends after prior content, WARN then ERROR.
C5_Witness ==
    /\ CONFIG # None /\ fs0[SinkPath] # <<>>
    /\ Len(calls) = 2 /\ Len(OkCalls) = 2
    /\ calls[1].level = "WARN" /\ calls[2].level = "ERROR"
    /\ Len(fs[SinkPath]) = 3

\* C6: when the append fails, the call prints exactly one secondary line
\* after its own (which it prints only if std is on): an ERROR line giving
\* the failure's description, whatever std and the minimum level are; and
\* nothing is written to any file.
C6_FileFailure ==
    [][(Logged /\ Failed(Call)) =>
        /\ CONFIG # None /\ Installed.file_logger_config.enabled
        /\ fs' = fs
        /\ OnlyPrinted
        /\ Len(Printed) = (IF Installed.std THEN 2 ELSE 1)
        /\ Installed.std => Carries(Printed[1], Call.level, Call.message)
        /\ LET secondary == Printed[Len(Printed)]
           IN /\ Styled(secondary, "ERROR")
              /\ secondary[Len(secondary)].s = Call.file_result]_vars

\* C6's case: console output off, minimum ERROR, a failed append.
C6_Witness ==
    /\ CONFIG # None /\ ~Installed.std /\ Installed.log_level = "ERROR"
    /\ Len(calls) = 1 /\ Failed(calls[1])
    /\ Len(stdout) = 1 /\ Styled(stdout[1], "ERROR") /\ fs = fs0

\* C7: the first build() succeeds for every combination of absent and set
\* inputs and installs the defaulted snapshot; ConfigBuilder::new() has
\* release suppression off and console output on.
C7_BuildDefaults ==
    /\ ConfigBuilder_new.log_in_release = FALSE /\ ConfigBuilder_new.std = TRUE
    /\ lastBuild.result = "panic" => CONFIG # None
    /\ lastBuild.result = "Ok" =>
         CONFIG = {Defaulted(CHOOSE b \in lastBuild.builder : TRUE)}

\* C8: a disabled sink is never written: with the file sink off no call
\* attempts an append or changes a file; with std off a call prints nothing
\* unless its append failed; with std on a call that passes filtering
\* prints exactly one styled line for its message (followed only by the
\* secondary line of a failed append).
C8_DisabledSinks ==
    [][(Logged /\ CONFIG # None) =>
        /\ ~Installed.file_logger_config.enabled =>
              fs' = fs /\ Call.file_result = "none"
        /\ (~Installed.std /\ ~Failed(Call)) => stdout' = stdout
        /\ (Installed.std /\ Passes(Call.level)) =>
              /\ OnlyPrinted
              /\ Len(Printed) = (IF Failed(Call) THEN 2 ELSE 1)
              /\ Carries(Printed[1], Call.level, Call.message)
              /\ Styled(Printed[1], Call.level)]_vars

\* C8's case: both sinks off, two calls that pass filtering, nothing
\* printed and nothing written.
C8_Witness ==
    /\ CONFIG # None /\ ~Installed.std
    /\ ~Installed.file_logger_config.enabled
    /\ Installed.log_level = "WARN"
    /\ Len(calls) = 2 /\ calls[1].configured /\ calls[2].configured
    /\ calls[1].level = "ERROR" /\ calls[2].level = "WARN"
    /\ stdout = <<>> /\ fs = fs0

\* The timestamp a line carries.
TimeOf(line) ==
    LET i == CHOOSE j \in 1..Len(line) : line[j].sec # -1
    IN [line[i] EXCEPT !.bg = "none"]

\* C9: with timestamps on, the plain line of a call carries the same
\* timestamp text as its styled line.
C9_SameTimestamp ==
    (/\ Len(calls) = 1 /\ LastCall.configured /\ LastCall.file_result = "Ok"
     /\ Installed.log_with_time /\ Installed.std)
    => TimeOf(stdout[Len(stdout)]) = TimeOf(fs[SinkPath][Len(fs[SinkPath])])

\* The installed snapshot with the other file format.
OtherFormat ==
    {[Installed EXCEPT !.file_logger_config.log_format =
        IF @ = "TEXT" THEN "JSON" ELSE "TEXT"]}

====
